---- MODULE Spec2Model ----
(***************************************************************************)
(* Model of src/acquisition/covidcast/signal_dash_data_generator.py: the   *)
(* dashboard store (Database.write_status, Database.write_coverage on one  *)
(* connection with an explicit commit), the metadata helpers, get_coverage *)
(* and main.                                                               *)
(*                                                                         *)
(* Dates are day numbers of one month (1..31); max_issue is the integer    *)
(* YYYYMMDD of such a day.  An optional value is a sequence of length 0 or *)
(* 1.  The result of a call is [kind |-> "ok", value |-> v] or             *)
(* [kind |-> "error", exc |-> e, site |-> s], site naming the statement    *)
(* that raised.  The specification's InvariantViolation is the ValueError  *)
(* of get_coverage, its StoreError is mysql.connector.Error; the source    *)
(* raises no NotFoundError.                                                *)
(***************************************************************************)
EXTENDS Integers, Sequences, FiniteSets, TLC

VARIABLES
    db,                  \* committed contents of the three tables
    tx,                  \* what the open connection sees: db plus uncommitted statements
    pc,                  \* position of main
    metadata,            \* covidcast.metadata() of the run
    today,               \* datetime.date.today()
    idx,                 \* position of the for loop in signals_to_generate
    signals_to_generate, \* main's local
    signal_status_list,  \* main's local; the argument of the last write_status call
    coverage_list,       \* main's local; the argument of the last write_coverage call
    status_log,          \* <<>>, <<"ok">> ("Wrote status.") or <<"error">> (logger.exception)
    coverage_log,        \* the same for the coverage batch
    returned,            \* <<>> or <<value returned by main>>
    exit_code,           \* <<>> or <<exit code of the process>>
    exc,                 \* <<>> or <<the uncaught exception of the run>>
    run_start_db,        \* db when the run's connection was opened
    issue_call,          \* <<>> or <<[signal, out]>>: last get_latest_issue_from_metadata
    time_call,           \* <<>> or <<[signal, out]>>: last get_latest_time_value_from_metadata
    cov_call             \* <<>> or <<[signal, rows, out]>>: last get_coverage

vars == <<db, tx, pc, metadata, today, idx, signals_to_generate,
          signal_status_list, coverage_list, status_log, coverage_log,
          returned, exit_code, exc, run_start_db, issue_call, time_call, cov_call>>

----------------------------------------------------------------------------
(* Bounds *)

\* last day the clock reaches
MaxDay == 2

\* longest list handed to write_status / write_coverage by a direct caller
MaxBatch == 2

----------------------------------------------------------------------------
(* Values *)

\* pandas' NaT, the maximum of an empty selection; no day number
NaT == -1

Ok(v) == [kind |-> "ok", value |-> v]

Err(e, s) == [kind |-> "error", exc |-> e, site |-> s]

MaxOf(S) == CHOOSE x \in S : \A y \in S : y <= x

Greatest(a, b) == IF a >= b THEN a ELSE b

\* rows of dashboard_signal: id, name, source, enabled (fetch order)
SignalTable ==
    << [id |-> 1, name |-> "sig_a", source |-> "a", enabled |-> TRUE],
       [id |-> 2, name |-> "sig_b", source |-> "b", enabled |-> TRUE],
       [id |-> 3, name |-> "sig_off", source |-> "a", enabled |-> FALSE] >>

SignalIds == {SignalTable[i].id : i \in DOMAIN SignalTable}

\* the store before the first run: no rows, both watermarks at the seed date
EmptyStore ==
    [status |-> {}, coverage |-> {},
     latest_status_update |-> [s \in SignalIds |-> 0],
     latest_coverage_update |-> [s \in SignalIds |-> 0]]

\* metadata tables the API may return (row order is the frame's order)
MetadataTables ==
    { << [data_source |-> "a", signal |-> "s1", max_issue |-> 20230102, max_time |-> 1],
         [data_source |-> "a", signal |-> "s2", max_issue |-> 20230103, max_time |-> 2],
         [data_source |-> "b", signal |-> "s1", max_issue |-> 20230102, max_time |-> 1] >>,
      << [data_source |-> "a", signal |-> "s1", max_issue |-> 20230102, max_time |-> 1],
         [data_source |-> "b", signal |-> "s1", max_issue |-> 20230102, max_time |-> 1] >>,
      << [data_source |-> "a", signal |-> "s1", max_issue |-> 20230102, max_time |-> 1] >> }

\* geo_type columns of what the time-series endpoint may return for one day
TimeSeriesShapes ==
    { <<>>, <<"county">>, <<"county", "county">>, <<"county", "state">>,
      <<"county", "state", "county">> }

\* covidcast.signal(source, signal, start_day = end_day = day): one row per geo unit
TimeSeries(source, signal, day, shape) ==
    [i \in DOMAIN shape |->
        [geo_type |-> shape[i], data_source |-> source,
         time_value |-> day, signal |-> signal, geo_value |-> i]]

----------------------------------------------------------------------------
(* Database *)

StatusKey(x) == <<x.signal_id, x.date>>

CoverageKey(x) == <<x.signal_id, x.date, x.geo_type>>

\* a faulty variant of UpsertStatusRow: INSERT IGNORE, the stored row survives
UpsertStatusRowKeepOld(table, x) ==
    IF \E r \in table : StatusKey(r) = StatusKey(x) THEN table ELSE table \cup {x}

\* INSERT ... ON DUPLICATE KEY UPDATE latest_issue, latest_time_value
UpsertStatusRow(table, x) ==
    {r \in table : StatusKey(r) # StatusKey(x)} \cup {x}

RECURSIVE InsertStatusRows(_, _)
InsertStatusRows(table, list) ==
    IF list = <<>> THEN table
    ELSE InsertStatusRows(UpsertStatusRow(table, Head(list)), Tail(list))

\* a faulty variant of InsertCoverageRow: the new count replaces the stored one
InsertCoverageRowOverwrite(table, x) ==
    {r \in table : CoverageKey(r) # CoverageKey(x)} \cup {x}

\* INSERT ... ON DUPLICATE KEY UPDATE signal_id = signal_id
InsertCoverageRow(table, x) ==
    IF \E r \in table : CoverageKey(r) = CoverageKey(x) THEN table ELSE table \cup {x}

RECURSIVE InsertCoverageRows(_, _)
InsertCoverageRows(table, list) ==
    IF list = <<>> THEN table
    ELSE InsertCoverageRows(InsertCoverageRow(table, Head(list)), Tail(list))

\* dict.update({k: v}) on a dict kept as its items in insertion order
DictUpdate(d, k, v) ==
    IF \E i \in DOMAIN d : d[i][1] = k
    THEN [i \in DOMAIN d |-> IF d[i][1] = k THEN <<k, v>> ELSE d[i]]
    ELSE Append(d, <<k, v>>)

DictGet(d, k) ==
    IF \E i \in DOMAIN d : d[i][1] = k
    THEN <<(d[CHOOSE i \in DOMAIN d : d[i][1] = k])[2]>>
    ELSE <<>>

\* the loop building latest_status_dates / latest_coverage_dates
RECURSIVE LatestDates(_, _)
LatestDates(d, list) ==
    IF list = <<>> THEN d
    ELSE LET x == Head(list)
             cur == DictGet(d, x.signal_id)
         IN LatestDates(IF cur = <<>> \/ x.date > cur[1]
                        THEN DictUpdate(d, x.signal_id, x.date) ELSE d,
                        Tail(list))

\* [(v, k) for k, v in dict.items()]
LatestTuples(list) ==
    LET d == LatestDates(<<>>, list)
    IN [i \in DOMAIN d |-> <<d[i][2], d[i][1]>>]

\* UPDATE dashboard_signal SET w = GREATEST(w, %s) WHERE id = %s, for each tuple
RECURSIVE ApplyUpdates(_, _)
ApplyUpdates(w, tuples) ==
    IF tuples = <<>> THEN w
    ELSE LET v == Head(tuples)[1]
             k == Head(tuples)[2]
         IN ApplyUpdates(IF k \in DOMAIN w
                         THEN [w EXCEPT ![k] = Greatest(w[k], v)] ELSE w,
                         Tail(tuples))

\* Database.write_status on the open connection.  Each outcome is the committed
\* store, the connection's view and whether the call returned (ok) or raised a
\* store error.  An error leaves the statements executed before it uncommitted on
\* the connection (no rollback is issued); the UPDATEs run one by one, so an error
\* at the k+1-th leaves k of them executed; a failed commit leaves the statements
\* pending or rolled back.
WriteStatusOutcomes(committed, view, status_list) ==
    LET inserted == [view EXCEPT !.status = InsertStatusRows(@, status_list)]
        tuples == LatestTuples(status_list)
        upd(k) == [inserted EXCEPT !.latest_status_update =
                       ApplyUpdates(@, SubSeq(tuples, 1, k))]
        full == upd(Len(tuples))
    IN    {[db |-> full, tx |-> full, ok |-> TRUE]}
     \cup {[db |-> committed, tx |-> view, ok |-> FALSE]}
     \cup {[db |-> committed, tx |-> upd(k), ok |-> FALSE] : k \in 0 .. Len(tuples) - 1}
     \cup {[db |-> committed, tx |-> t, ok |-> FALSE] : t \in {full, committed}}

\* Database.write_coverage, the same way
WriteCoverageOutcomes(committed, view, list) ==
    LET inserted == [view EXCEPT !.coverage = InsertCoverageRows(@, list)]
        tuples == LatestTuples(list)
        upd(k) == [inserted EXCEPT !.latest_coverage_update =
                       ApplyUpdates(@, SubSeq(tuples, 1, k))]
        full == upd(Len(tuples))
    IN    {[db |-> full, tx |-> full, ok |-> TRUE]}
     \cup {[db |-> committed, tx |-> view, ok |-> FALSE]}
     \cup {[db |-> committed, tx |-> upd(k), ok |-> FALSE] : k \in 0 .. Len(tuples) - 1}
     \cup {[db |-> committed, tx |-> t, ok |-> FALSE] : t \in {full, committed}}

\* Database.get_enabled_signals: SELECT ... WHERE enabled, read on the connection
get_enabled_signals(view) ==
    LET rows == SelectSeq(SignalTable, LAMBDA r : r.enabled)
    IN [i \in DOMAIN rows |->
          [db_id |-> rows[i].id, name |-> rows[i].name, source |-> rows[i].source,
           latest_coverage_update |-> view.latest_coverage_update[rows[i].id],
           latest_status_update |-> view.latest_status_update[rows[i].id]]]

----------------------------------------------------------------------------
(* Coverage calculator *)

\* metadata[metadata.data_source == dashboard_signal.source]
ForSource(dashboard_signal, md) ==
    SelectSeq(md, LAMBDA r : r.data_source = dashboard_signal.source)

\* pd.to_datetime(str(n), format="%Y%m%d").date(), on the month the model covers
DateFromYYYYMMDD(n) ==
    IF n \div 100 = 202301 /\ n % 100 \in 1 .. 31
    THEN Ok(n % 100)
    ELSE Err("ValueError", "to_datetime")

\* Series.max(): NaN / NaT on an empty selection
ColumnMax(S) == IF S = {} THEN NaT ELSE MaxOf(S)

\* str(nan) is 'nan', which pd.to_datetime reads as NaT; NaT.date() is NaT
get_latest_issue_from_metadata(dashboard_signal, md) ==
    LET df_for_source == ForSource(dashboard_signal, md)
        max_issue == ColumnMax({df_for_source[i].max_issue : i \in DOMAIN df_for_source})
    IN IF max_issue = NaT THEN Ok(NaT) ELSE DateFromYYYYMMDD(max_issue)

\* the maximum of an empty datetime column is NaT; NaT.date() is NaT
get_latest_time_value_from_metadata(dashboard_signal, md) ==
    LET df_for_source == ForSource(dashboard_signal, md)
    IN Ok(ColumnMax({df_for_source[i].max_time : i \in DOMAIN df_for_source}))

\* the key of latest_data.groupby(['geo_type', 'data_source', 'time_value', 'signal'])
GroupKey(r) == <<r.geo_type, r.data_source, r.time_value, r.signal>>

Groups(latest_data) == {GroupKey(latest_data[i]) : i \in DOMAIN latest_data}

\* .size(): rows of the group
GroupSize(latest_data, g) ==
    Cardinality({i \in DOMAIN latest_data : GroupKey(latest_data[i]) = g})

\* a faulty variant of TooManyGroups: an off-by-one bound
TooManyGroupsOffByOne(n) == n > 2

\* if len(count_by_geo_type_df) > 1: raise ValueError
TooManyGroups(n) == n > 1

\* get_coverage, given what the time-series endpoint answers (shape)
get_coverage(dashboard_signal, md, shape) ==
    LET latest_time_value == get_latest_time_value_from_metadata(dashboard_signal, md)
        df_for_source == ForSource(dashboard_signal, md)
    IN IF df_for_source = <<>>
       THEN Err("IndexError", "signal_iloc")
       ELSE
         LET signal == df_for_source[1].signal
             latest_data == TimeSeries(dashboard_signal.source, signal,
                                       latest_time_value.value, shape)
             groups == Groups(latest_data)
         IN IF TooManyGroups(Cardinality(groups))
            THEN Err("ValueError", "one_group_check")
            ELSE IF groups = {}
            THEN Err("IndexError", "geo_type_iloc")
            ELSE LET g == CHOOSE x \in groups : TRUE
                 IN Ok(<< [signal_id |-> dashboard_signal.db_id,
                           date |-> latest_time_value.value,
                           geo_type |-> g[1],
                           count |-> GroupSize(latest_data, g)] >>)

----------------------------------------------------------------------------
(* main *)

\* a faulty variant of ForBody: a failing signal is skipped and the loop goes on
ForBodySkipFailed(sigs, i, status_l, cov_l, li, ltv, lc, day) ==
    LET failed == {r \in {li, ltv, lc} :
                       r.kind = "error"}
        after == IF i = Len(sigs) THEN "write_status" ELSE "loop"
    IN IF failed # {}
       THEN [pc |-> after, idx |-> i + 1, signal_status_list |-> status_l,
             coverage_list |-> cov_l,
             exc |-> <<(CHOOSE r \in failed : TRUE).exc>>, today |-> day]
       ELSE [pc |-> after, idx |-> i + 1,
             signal_status_list |-> Append(status_l,
                 [signal_id |-> sigs[i].db_id, date |-> day,
                  latest_issue |-> li.value,
                  latest_time_value |-> ltv.value]),
             coverage_list |-> cov_l \o lc.value,
             exc |-> <<>>, today |-> day]

\* one iteration of main's for loop, given the results li, ltv, lc of the three
\* calls; an exception of any of them is not caught and ends the run
ForBody(sigs, i, status_l, cov_l, li, ltv, lc, day) ==
    IF li.kind = "error"
    THEN [pc |-> "aborted", idx |-> i, signal_status_list |-> status_l,
          coverage_list |-> cov_l, exc |-> <<li.exc>>, today |-> day]
    ELSE IF ltv.kind = "error"
    THEN [pc |-> "aborted", idx |-> i, signal_status_list |-> status_l,
          coverage_list |-> cov_l, exc |-> <<ltv.exc>>, today |-> day]
    ELSE IF lc.kind = "error"
    THEN [pc |-> "aborted", idx |-> i, signal_status_list |-> status_l,
          coverage_list |-> cov_l, exc |-> <<lc.exc>>, today |-> day]
    ELSE [pc |-> IF i = Len(sigs) THEN "write_status" ELSE "loop",
          idx |-> i + 1,
          signal_status_list |-> Append(status_l,
              [signal_id |-> sigs[i].db_id, date |-> day,
               latest_issue |-> li.value,
               latest_time_value |-> ltv.value]),
          coverage_list |-> cov_l \o lc.value,
          exc |-> <<>>, today |-> day]

\* a faulty variant of AfterStatus: one try block around both writes
AfterStatusOneTry(ok) == IF ok THEN "write_coverage" ELSE "done"

\* where main goes after the try/except around write_status
AfterStatus(ok) == "write_coverage"

\* a faulty variant of MainResult: the result reflects the logged store errors
MainResultFromLogs(status_ok, coverage_ok) == status_ok /\ coverage_ok

\* return True
MainResult(status_ok, coverage_ok) == TRUE

\* if not main(...): sys.exit(1)
ExitCode(result) == IF result THEN 0 ELSE 1

Init ==
    /\ db = EmptyStore
    /\ tx = EmptyStore
    /\ pc = "start"
    /\ metadata = <<>>
    /\ today = 1
    /\ idx = 1
    /\ signals_to_generate = <<>>
    /\ signal_status_list = <<>>
    /\ coverage_list = <<>>
    /\ status_log = <<>>
    /\ coverage_log = <<>>
    /\ returned = <<>>
    /\ exit_code = <<>>
    /\ exc = <<>>
    /\ run_start_db = EmptyStore
    /\ issue_call = <<>>
    /\ time_call = <<>>
    /\ cov_call = <<>>

\* main up to the for loop: connect, read the enabled signals, fetch the metadata
StartRun ==
    /\ pc = "start"
    /\ tx' = db
    /\ run_start_db' = db
    /\ signals_to_generate' = get_enabled_signals(db)
    /\ \E md \in MetadataTables : metadata' = md
    /\ idx' = 1
    /\ pc' = IF get_enabled_signals(db) = <<>> THEN "write_status" ELSE "loop"
    /\ UNCHANGED <<db, today, signal_status_list, coverage_list, status_log,
                   coverage_log, returned, exit_code, exc, issue_call, time_call,
                   cov_call>>

\* one iteration of the for loop
ComputeSignal ==
    /\ pc = "loop"
    /\ \E day \in today .. MaxDay, shape \in TimeSeriesShapes :
         LET dashboard_signal == signals_to_generate[idx]
             latest_issue == get_latest_issue_from_metadata(dashboard_signal, metadata)
             latest_time_value ==
                 get_latest_time_value_from_metadata(dashboard_signal, metadata)
             latest_coverage == get_coverage(dashboard_signal, metadata, shape)
             step == ForBody(signals_to_generate, idx, signal_status_list,
                             coverage_list, latest_issue, latest_time_value,
                             latest_coverage, day)
         IN /\ issue_call' = <<[signal |-> dashboard_signal, out |-> latest_issue]>>
            /\ time_call' = <<[signal |-> dashboard_signal, out |-> latest_time_value]>>
            /\ cov_call' = <<[signal |-> dashboard_signal, shape |-> shape,
                              out |-> latest_coverage]>>
            /\ pc' = step.pc
            /\ idx' = step.idx
            /\ signal_status_list' = step.signal_status_list
            /\ coverage_list' = step.coverage_list
            /\ exc' = step.exc
            /\ today' = step.today
            /\ exit_code' = IF step.pc = "aborted" THEN <<1>> ELSE exit_code
    /\ UNCHANGED <<db, tx, metadata, signals_to_generate, status_log, coverage_log,
                   returned, run_start_db>>

\* try: database.write_status(signal_status_list) except mysql.connector.Error
WriteStatus ==
    /\ pc = "write_status"
    /\ \E o \in WriteStatusOutcomes(db, tx, signal_status_list) :
         /\ db' = o.db
         /\ tx' = o.tx
         /\ status_log' = <<IF o.ok THEN "ok" ELSE "error">>
         /\ pc' = AfterStatus(o.ok)
    /\ UNCHANGED <<metadata, today, idx, signals_to_generate, signal_status_list,
                   coverage_list, coverage_log, returned, exit_code, exc,
                   run_start_db, issue_call, time_call, cov_call>>

\* try: database.write_coverage(coverage_list) except ...; return True; exit
WriteCoverage ==
    /\ pc = "write_coverage"
    /\ \E o \in WriteCoverageOutcomes(db, tx, coverage_list) :
         LET result == MainResult(status_log = <<"ok">>, o.ok)
         IN /\ db' = o.db
            /\ tx' = o.tx
            /\ coverage_log' = <<IF o.ok THEN "ok" ELSE "error">>
            /\ returned' = <<result>>
            /\ exit_code' = <<ExitCode(result)>>
    /\ pc' = "done"
    /\ UNCHANGED <<metadata, today, idx, signals_to_generate, signal_status_list,
                   coverage_list, status_log, exc, run_start_db, issue_call,
                   time_call, cov_call>>

\* the process ends (its connection closes, uncommitted statements are lost) and
\* the next scheduled run starts
NextRun ==
    /\ pc \in {"done", "aborted"}
    /\ pc' = "start"
    /\ tx' = db
    /\ run_start_db' = db
    /\ metadata' = <<>>
    /\ idx' = 1
    /\ signals_to_generate' = <<>>
    /\ signal_status_list' = <<>>
    /\ coverage_list' = <<>>
    /\ status_log' = <<>>
    /\ coverage_log' = <<>>
    /\ returned' = <<>>
    /\ exit_code' = <<>>
    /\ exc' = <<>>
    /\ issue_call' = <<>>
    /\ time_call' = <<>>
    /\ cov_call' = <<>>
    /\ UNCHANGED <<db, today>>

Next == StartRun \/ ComputeSignal \/ WriteStatus \/ WriteCoverage \/ NextRun

Spec == Init /\ [][Next]_vars

\* one execution of main, from the store before the first run
Run == StartRun \/ ComputeSignal \/ WriteStatus \/ WriteCoverage

\* main is sequential and synchronous: a statement that can run does run
FairSpec ==
    /\ Init
    /\ [][Run]_vars
    /\ WF_vars(ComputeSignal)
    /\ WF_vars(WriteStatus)
    /\ WF_vars(WriteCoverage)

----------------------------------------------------------------------------
(* The store called directly, one call per connection, with arbitrary lists *)

\* SignalStatus objects a caller may pass
StatusInputs ==
    { [signal_id |-> 1, date |-> 1, latest_issue |-> 2, latest_time_value |-> 1],
      [signal_id |-> 1, date |-> 1, latest_issue |-> 3, latest_time_value |-> 2],
      [signal_id |-> 1, date |-> 2, latest_issue |-> 3, latest_time_value |-> 2],
      [signal_id |-> 2, date |-> 1, latest_issue |-> 2, latest_time_value |-> 1],
      [signal_id |-> 2, date |-> 2, latest_issue |-> 2, latest_time_value |-> 1] }

\* SignalCoverage objects a caller may pass
CoverageInputs ==
    { [signal_id |-> 1, date |-> 1, geo_type |-> "county", count |-> 1],
      [signal_id |-> 1, date |-> 1, geo_type |-> "county", count |-> 2],
      [signal_id |-> 1, date |-> 2, geo_type |-> "county", count |-> 1],
      [signal_id |-> 2, date |-> 1, geo_type |-> "county", count |-> 1],
      [signal_id |-> 2, date |-> 1, geo_type |-> "state", count |-> 1] }

Lists(S) == UNION {[1 .. n -> S] : n \in 0 .. MaxBatch}

\* Database().write_status(list) on a connection of its own
CallWriteStatus ==
    /\ pc = "start"
    /\ \E list \in Lists(StatusInputs) :
         \E o \in {[db |-> r.db, ok |-> r.ok] : r \in WriteStatusOutcomes(db, db, list)} :
           /\ db' = o.db
           /\ tx' = o.db
           /\ signal_status_list' = list
           /\ status_log' = <<IF o.ok THEN "ok" ELSE "error">>
    /\ UNCHANGED <<pc, metadata, today, idx, signals_to_generate, coverage_list,
                   coverage_log, returned, exit_code, exc, run_start_db,
                   issue_call, time_call, cov_call>>

\* Database().write_coverage(list) on a connection of its own
CallWriteCoverage ==
    /\ pc = "start"
    /\ \E list \in Lists(CoverageInputs) :
         \E o \in {[db |-> r.db, ok |-> r.ok] : r \in WriteCoverageOutcomes(db, db, list)} :
           /\ db' = o.db
           /\ tx' = o.db
           /\ coverage_list' = list
           /\ coverage_log' = <<IF o.ok THEN "ok" ELSE "error">>
    /\ UNCHANGED <<pc, metadata, today, idx, signals_to_generate, signal_status_list,
                   status_log, returned, exit_code, exc, run_start_db,
                   issue_call, time_call, cov_call>>

SpecStatus == Init /\ [][CallWriteStatus]_vars

SpecCoverage == Init /\ [][CallWriteCoverage]_vars

----------------------------------------------------------------------------
(* Properties *)

StatusRowsOf(store, s) == {r \in store.status : r.signal_id = s}

CoverageRowsOf(store, s) == {r \in store.coverage : r.signal_id = s}

\* C1: in every committed state each signal's latest_status_update (resp.
\* latest_coverage_update) is no less than at the start of the run and, once a
\* status (resp. coverage) row of the signal is stored, equals the greatest date
\* of those rows.
C1_WatermarkIsMaxDate ==
    \A s \in SignalIds :
      /\ db.latest_status_update[s] >= run_start_db.latest_status_update[s]
      /\ db.latest_coverage_update[s] >= run_start_db.latest_coverage_update[s]
      /\ StatusRowsOf(db, s) # {} =>
           db.latest_status_update[s] = MaxOf({r.date : r \in StatusRowsOf(db, s)})
      /\ CoverageRowsOf(db, s) # {} =>
           db.latest_coverage_update[s] = MaxOf({r.date : r \in CoverageRowsOf(db, s)})

\* C2: write_status is atomic: in every committed state the status rows of a
\* batch are stored if and only if the batch's watermark update is, i.e. every
\* stored status row is covered by its signal's latest_status_update and every
\* advanced latest_status_update is the date of a stored row.
C2_StatusAtomic ==
    /\ \A r \in db.status : db.latest_status_update[r.signal_id] >= r.date
    /\ \A s \in SignalIds :
         db.latest_status_update[s] # EmptyStore.latest_status_update[s] =>
           \E r \in StatusRowsOf(db, s) : r.date = db.latest_status_update[s]

\* C3: every completed run has attempted both writes whatever the outcome of the
\* status write, and a store error in write_coverage leaves the committed status
\* rows and latest_status_update unchanged.
C3_IndependentBatches ==
    /\ [](pc = "done" => status_log # <<>> /\ coverage_log # <<>>)
    /\ [][coverage_log = <<>> /\ coverage_log' = <<"error">> =>
            /\ db'.status = db.status
            /\ db'.latest_status_update = db.latest_status_update]_vars

\* C3's case: the status write committed rows and the coverage write failed
C3_Witness ==
    /\ pc = "done"
    /\ status_log = <<"ok">>
    /\ coverage_log = <<"error">>
    /\ db.status # run_start_db.status

UniqueStatusKeys(table) ==
    \A r1, r2 \in table : StatusKey(r1) = StatusKey(r2) => r1 = r2

LastWithStatusKey(list, k) ==
    list[MaxOf({i \in DOMAIN list : StatusKey(list[i]) = k})]

\* C4: the status table holds one row per (signal_id, date); a successful
\* write_status stores, for every key of its list, the values of the last entry
\* with that key, keeps the rows of all other keys and adds nothing else; a
\* second successful call with the same list changes nothing.
C4_StatusUpsert ==
    /\ [](UniqueStatusKeys(db.status))
    /\ [][status_log' = <<"ok">> =>
            LET list == signal_status_list'
                keys == {StatusKey(list[i]) : i \in DOMAIN list}
            IN /\ \A k \in keys : LastWithStatusKey(list, k) \in db'.status
               /\ \A r \in db.status : StatusKey(r) \notin keys => r \in db'.status
               /\ \A r \in db'.status : StatusKey(r) \notin keys => r \in db.status
               /\ (status_log = <<"ok">> /\ signal_status_list = list) =>
                     db'.status = db.status]_vars

\* C4's case: a key stored with other values was written again, twice in one list
C4_Witness ==
    /\ status_log = <<"ok">>
    /\ Len(signal_status_list) = 2
    /\ StatusKey(signal_status_list[1]) = StatusKey(signal_status_list[2])
    /\ signal_status_list[1] # signal_status_list[2]
    /\ signal_status_list[2] \in db.status

UniqueCoverageKeys(table) ==
    \A r1, r2 \in table : CoverageKey(r1) = CoverageKey(r2) => r1 = r2

FirstWithCoverageKey(list, k) ==
    list[CHOOSE i \in DOMAIN list :
            /\ CoverageKey(list[i]) = k
            /\ \A j \in DOMAIN list : CoverageKey(list[j]) = k => i <= j]

\* C5: the coverage table holds one row per (signal_id, date, geo_type); a stored
\* row is never changed or removed by a later write_coverage, and a successful
\* write_coverage stores, for a key not yet stored, the first entry of its list
\* with that key.
C5_FirstWriteWins ==
    /\ [](UniqueCoverageKeys(db.coverage))
    /\ [][/\ \A r \in db.coverage : r \in db'.coverage
          /\ coverage_log' = <<"ok">> =>
               LET list == coverage_list'
                   stored == {CoverageKey(r) : r \in db.coverage}
               IN \A i \in DOMAIN list :
                    CoverageKey(list[i]) \notin stored =>
                      FirstWithCoverageKey(list, CoverageKey(list[i])) \in db'.coverage]_vars

\* C5's case: a successful write_coverage carried another count for a stored key
C5_Witness ==
    /\ coverage_log = <<"ok">>
    /\ \E i \in DOMAIN coverage_list : \E r \in db.coverage :
         /\ CoverageKey(r) = CoverageKey(coverage_list[i])
         /\ r.count # coverage_list[i].count

GeoTypes(shape) == {shape[i] : i \in DOMAIN shape}

HasMetadata(dashboard_signal, md) ==
    \E i \in DOMAIN md : md[i].data_source = dashboard_signal.source

\* C6: for a signal whose source has metadata, get_coverage returns exactly one
\* coverage object (signal id, latest time value, geo_type, number of rows) when
\* the rows are of one geo_type, and raises the one-group error, returning
\* nothing, when they are of two or more.
C6_Coverage ==
    \A i \in DOMAIN cov_call :
      LET c == cov_call[i]
          geos == GeoTypes(c.shape)
      IN HasMetadata(c.signal, metadata) =>
           /\ Cardinality(geos) = 1 =>
                /\ c.out.kind = "ok"
                /\ c.out.value =
                     << [signal_id |-> c.signal.db_id,
                         date |-> time_call[i].out.value,
                         geo_type |-> CHOOSE g \in geos : TRUE,
                         count |-> Len(c.shape)] >>
           /\ Cardinality(geos) >= 2 =>
                /\ c.out.kind = "error"
                /\ c.out.exc = "ValueError"
                /\ c.out.site = "one_group_check"

\* C6's cases: two rows of one geo_type counted, and rows of two geo_types refused
C6_Witness ==
    /\ cov_call # <<>>
    /\ cov_call[1].shape = <<"county", "county">>
    /\ cov_call[1].out.kind = "ok"
    /\ coverage_list # <<>>
    /\ coverage_list[Len(coverage_list)].count = 2

\* C7: a run in which a computation raised is aborted with nothing written:
\* neither write was attempted and the store is as at the start of the run.
C7_AbortBeforeWrites ==
    exc # <<>> =>
      /\ pc = "aborted"
      /\ status_log = <<>>
      /\ coverage_log = <<>>
      /\ db = run_start_db
      /\ tx = run_start_db

\* C7's case: the second signal failed after the first was computed
C7_Witness ==
    /\ pc = "aborted"
    /\ idx = 2
    /\ signal_status_list # <<>>
    /\ coverage_list # <<>>
    /\ exc = <<"ValueError">>

\* C8: without a metadata row for the signal's source, latest_issue and
\* latest_time_value both fail with NotFoundError.
C8_NotFoundError ==
    /\ \A i \in DOMAIN issue_call :
         ~HasMetadata(issue_call[i].signal, metadata) =>
           issue_call[i].out.kind = "error" /\ issue_call[i].out.exc = "NotFoundError"
    /\ \A i \in DOMAIN time_call :
         ~HasMetadata(time_call[i].signal, metadata) =>
           time_call[i].out.kind = "error" /\ time_call[i].out.exc = "NotFoundError"

\* C9: a run that reaches the write phase does not abort, completes, and then has
\* returned True with exit code 0, whatever the two writes logged.
C9_RunReportsSuccess ==
    /\ [](pc = "done" => returned = <<TRUE>> /\ exit_code = <<0>>)
    /\ [][(pc \in {"write_status", "write_coverage"}) => (pc' # "aborted")]_vars
    /\ (pc = "write_status") ~> (pc = "done")

\* C9's case: both writes failed and the run ended with exit code 0
C9_Witness ==
    /\ pc = "done"
    /\ status_log = <<"error">>
    /\ coverage_log = <<"error">>
    /\ exit_code = <<0>>

\* C10: when the time-series query returns no row, get_coverage fails at its
\* one-group check, with an error other than the one raised for several groups.
C10_NoDataRejected ==
    \A i \in DOMAIN cov_call :
      LET c == cov_call[i]
      IN (HasMetadata(c.signal, metadata) /\ c.shape = <<>>) =>
           /\ c.out.kind = "error"
           /\ c.out.site = "one_group_check"
           /\ c.out.exc # "ValueError"

====
